---- MODULE Spec2Model ----
(***************************************************************************)
(* A model of the future-based completion engine of                        *)
(* src/src/wemd/work_managers/__init__.py: WMFuture, FutureWatcher,        *)
(* WMFuture.all_acquired and the WEMDWorkManager waiting idioms, and of the *)
(* work manager's mode as the w_states command (src/lib/cmds/w_states.py)  *)
(* uses it.                                                                *)
(*                                                                         *)
(* Threads are numbered 1..Len(role); role[t] is what thread t runs and is *)
(* fixed by the initial state of each specification.  Every access to a    *)
(* future's fields happens under that future's _condition (an RLock inside *)
(* a threading.Condition), so a critical section that cannot block is one  *)
(* step; a section that can block or call out (callbacks, watcher.signal)  *)
(* is split at those points.                                               *)
(***************************************************************************)
EXTENDS Integers, Sequences, FiniteSets, TLC

\* ---------------------------------------------------------------- bounds
NumFutures == 2
\* threads calling wait_all side by side in the liveness specification
NumWaiters == 2

Futures == 1..NumFutures
\* Python's None; no lock holder
None == 0
NoThread == 0
\* The engine never inspects a payload beyond the truth value of a stored
\* exception, so the payload of a call is a token naming the call: thread t
\* passes the value, or the exception instance, t.  Exception instances are
\* truthy objects, like every BaseException instance without __len__ or
\* __nonzero__.
Payload(t) == t

VARIABLES
    \* WMFuture fields, per future
    done,               \* _done
    result,             \* _result
    exception,          \* _exception
    watchers,           \* _watchers: set of watchers (named by their creating thread)
    update_callbacks,   \* _update_callbacks: sequence of callbacks
    cond_owner,         \* _condition: thread holding the RLock, or NoThread
    cond_depth,         \* _condition: recursion depth of the RLock
    cond_waiters,       \* _condition: threads blocked in wait(), not yet notified
    \* FutureWatcher fields, per watcher (a watcher is named by the thread that built it)
    w_event,            \* event (threading.Event flag)
    w_lock,             \* lock: holder or NoThread
    w_threshold,        \* threshold
    w_completed,        \* completed: sequence of futures
    \* threads
    role,               \* what each thread runs
    pc,                 \* position of each thread
    fut,                \* the future a thread's current call is on
    arg,                \* the call's argument (payload, callback kind, threshold)
    fset,               \* the collection of futures a waiting idiom was given
    order,              \* list(futures): the iteration order of a set
    idx,                \* loop index
    snap,               \* local "completed" set of a snapshot; _notify_watchers' work list
    pending,            \* local "pending" set
    batch,              \* local "completed" list returned by reset()
    out,                \* what the call returned, raised or yielded so far
    flag,               \* what the call saw when it entered (the future's _done)
    witer,              \* the sequence FutureWatcher.__init__ iterates
    widx,               \* its position in that sequence
    \* history (not read by any action's guard or effect on program state)
    ncompl,             \* per future: number of set_result/set_exception calls begun
    first_arg,          \* per future: the payload given to the first such call
    sig_count,          \* per watcher, future: number of watcher.signal(future) calls
    sig_sync,           \* per watcher: futures signalled synchronously from _add_watcher
    registered,         \* per watcher: futures _add_watcher(watcher) was called on
    invoked,            \* per future: callbacks invoked, in order
    stored,             \* per future: callbacks appended to _update_callbacks, in order
    sig_seq,            \* per watcher: the futures of its signal() calls, in call order
    prior,              \* per future that became Done with a watcher stored on it:
                        \* the futures Done, and those whose completing call had
                        \* returned, at that moment
    \* the process: its work manager and the w_states command that drives it
    mode,               \* WEMDWorkManager.mode
    shutdown_called,    \* WEMDWorkManager.shutdown_called
    ws_pc,              \* position of the w_states script
    ws_mode,            \* its local "mode", what startup() returned
    ws_exit,            \* its exit status, None while it runs
    ws_backing          \* whether it has opened the data store

futVars == <<done, result, exception, watchers, update_callbacks,
             cond_owner, cond_depth, cond_waiters>>
watVars == <<w_event, w_lock, w_threshold, w_completed>>
locVars == <<fut, arg, fset, order, idx, snap, pending, batch, out, flag, witer, widx>>
histVars == <<ncompl, first_arg, sig_count, sig_sync, registered, invoked, stored,
             sig_seq, prior>>
procVars == <<mode, shutdown_called, ws_pc, ws_mode, ws_exit, ws_backing>>
vars == <<futVars, watVars, role, pc, locVars, histVars, procVars>>

Threads == DOMAIN role

\* ------------------------------------------------------------- helpers
Range(s) == {s[i] : i \in DOMAIN s}

\* all orderings of a finite set, as sequences without repetition
Perms(S) == {s \in [1..Cardinality(S) -> S] : \A i, j \in DOMAIN s : s[i] = s[j] => i = j}

\* Python truth value of a stored exception slot ("if self._exception:")
Truthy(x) == x # None

\* threading.RLock acquire: free, or re-entered by its owner
CanAcquire(f, t) == cond_owner[f] \in {NoThread, t}

\* mutant: acquisition never blocks
AcquiredMut(f, t) ==
    /\ cond_owner' = [cond_owner EXCEPT ![f] = t]
    /\ cond_depth' = [cond_depth EXCEPT ![f] = @ + 1]

Acquired(f, t) ==
    /\ CanAcquire(f, t)
    /\ cond_owner' = [cond_owner EXCEPT ![f] = t]
    /\ cond_depth' = [cond_depth EXCEPT ![f] = @ + 1]

Released(f, t) ==
    /\ cond_owner' = [cond_owner EXCEPT ![f] = IF cond_depth[f] = 1 THEN NoThread ELSE t]
    /\ cond_depth' = [cond_depth EXCEPT ![f] = @ - 1]

\* a critical section entered and left within one step
LockFree(f, t) == CanAcquire(f, t) /\ UNCHANGED <<cond_owner, cond_depth>>

\* --------------------------------------------------------- FutureWatcher
\* mutant: the event is set on every signal, whatever the threshold
WatcherSignalMut(w, f) ==
    /\ w_lock[w] = NoThread
    /\ w_completed' = [w_completed EXCEPT ![w] = Append(@, f)]
    /\ w_event' = [w_event EXCEPT ![w] = TRUE]
    /\ sig_count' = [sig_count EXCEPT ![w][f] = @ + 1]
    /\ sig_seq' = [sig_seq EXCEPT ![w] = Append(@, f)]
    /\ UNCHANGED <<w_lock, w_threshold>>

\* mutant: the future is put at the front of the list
WatcherSignalPrepend(w, f) ==
    /\ w_lock[w] = NoThread
    /\ w_completed' = [w_completed EXCEPT ![w] = <<f>> \o @]
    /\ w_event' = [w_event EXCEPT ![w] =
                      IF Len(w_completed[w]) + 1 >= w_threshold[w] THEN TRUE ELSE @]
    /\ sig_count' = [sig_count EXCEPT ![w][f] = @ + 1]
    /\ sig_seq' = [sig_seq EXCEPT ![w] = Append(@, f)]
    /\ UNCHANGED <<w_lock, w_threshold>>

\* mutant: signal does not take self.lock
WatcherSignalNoLock(w, f) ==
    /\ w_completed' = [w_completed EXCEPT ![w] = Append(@, f)]
    /\ w_event' = [w_event EXCEPT ![w] =
                      IF Len(w_completed[w]) + 1 >= w_threshold[w] THEN TRUE ELSE @]
    /\ sig_count' = [sig_count EXCEPT ![w][f] = @ + 1]
    /\ sig_seq' = [sig_seq EXCEPT ![w] = Append(@, f)]
    /\ UNCHANGED <<w_lock, w_threshold>>

\* FutureWatcher.signal(future): under self.lock, append and set the event at the threshold
WatcherSignal(w, f) ==
    /\ w_lock[w] = NoThread
    /\ w_completed' = [w_completed EXCEPT ![w] = Append(@, f)]
    /\ w_event' = [w_event EXCEPT ![w] =
                      IF Len(w_completed[w]) + 1 >= w_threshold[w] THEN TRUE ELSE @]
    /\ sig_count' = [sig_count EXCEPT ![w][f] = @ + 1]
    /\ sig_seq' = [sig_seq EXCEPT ![w] = Append(@, f)]
    /\ UNCHANGED <<w_lock, w_threshold>>

\* ------------------------------------------------------------- callbacks
\* A callback is named by the thread that registers it; a "nested" callback
\* registers a second one, named by the negated number, on the same future.
CallbackKinds == {"plain", "nested", "raises"}
CallbackKind(cb) == IF cb < 0 THEN "plain" ELSE arg[cb]

RECURSIVE RunCallback(_, _, _)
RECURSIVE AddCallbackBody(_, _, _)

\* mutant: the callback is appended whether the future is done or not
AddCallbackBodyMut(f, cb, st) ==
    [st EXCEPT !.ucb = Append(@, cb), !.sto = Append(@, cb)]

\* the body of _add_callback under the guard (lines 190-196); st carries the
\* future's callback list and the two logs
AddCallbackBody(f, cb, st) ==
    IF done[f]
    THEN RunCallback(f, cb, st)
    ELSE [st EXCEPT !.ucb = Append(@, cb), !.sto = Append(@, cb)]

\* callback(self), inside try/except Exception
RunCallback(f, cb, st) ==
    LET st1 == [st EXCEPT !.inv = Append(@, cb)]
    IN  IF CallbackKind(cb) = "nested" THEN AddCallbackBody(f, -cb, st1) ELSE st1

CallbackState(f) ==
    [ucb |-> update_callbacks[f], inv |-> invoked[f], sto |-> stored[f]]

SetCallbackState(f, st) ==
    /\ update_callbacks' = [update_callbacks EXCEPT ![f] = st.ucb]
    /\ invoked' = [invoked EXCEPT ![f] = st.inv]
    /\ stored' = [stored EXCEPT ![f] = st.sto]

\* ------------------------------------------- WMFuture: completing a future
\* A "producer" completes any future, by set_result or set_exception; an
\* "owner" is the one thread that computes future number t and completes it by
\* set_result, as the transport does for the task it ran.
ProducerRoles == {"producer", "owner"}
Targets(t) == IF role[t] = "owner" THEN {t} ELSE Futures

\* a set_result or set_exception call on f is between entering and leaving the guard
Completing(f) ==
    \E t \in Threads : role[t] \in ProducerRoles /\ pc[t] \notin {"idle", "returned"} /\ fut[t] = f

\* f is Done and the call that made it so has returned
Completed(f) == done[f] /\ ~Completing(f)

BeginCall(t, f, payload) ==
    /\ fut' = [fut EXCEPT ![t] = f]
    /\ arg' = [arg EXCEPT ![t] = payload]
    /\ flag' = [flag EXCEPT ![t] = done[f]]
    /\ ncompl' = [ncompl EXCEPT ![f] = @ + 1]
    /\ first_arg' = [first_arg EXCEPT ![f] = IF ncompl[f] = 0 THEN payload ELSE @]
    /\ UNCHANGED prior
    /\ pc' = [pc EXCEPT ![t] = "set_done"]

\* _set_result, lines 199-200: enter the guard and store the result
SetResult(t) ==
    /\ role[t] \in ProducerRoles /\ pc[t] = "idle"
    /\ \E f \in Targets(t) :
          /\ Acquired(f, t)
          /\ result' = [result EXCEPT ![f] = Payload(t)]
          /\ BeginCall(t, f, <<"result", Payload(t)>>)
    /\ UNCHANGED <<done, exception, watchers, update_callbacks, cond_waiters, watVars, role,
                   procVars, fset, order, idx, snap, pending, batch, out, witer, widx,
                   sig_count, sig_seq, sig_sync, registered, invoked, stored>>

\* _set_exception, lines 207-208: enter the guard and store the exception
SetException(t) ==
    /\ role[t] = "producer" /\ pc[t] = "idle"
    /\ \E f \in Futures :
          /\ Acquired(f, t)
          /\ exception' = [exception EXCEPT ![f] = Payload(t)]
          /\ BeginCall(t, f, <<"exception", Payload(t)>>)
    /\ UNCHANGED <<done, result, watchers, update_callbacks, cond_waiters, watVars, role, procVars,
                   fset, order, idx, snap, pending, batch, out, witer, widx,
                   sig_count, sig_seq, sig_sync, registered, invoked, stored>>

\* mutant: the flag is not set
MarkDoneMut(t) ==
    /\ role[t] \in ProducerRoles /\ pc[t] = "set_done"
    /\ pc' = [pc EXCEPT ![t] = "notify_all"]
    /\ UNCHANGED <<futVars, watVars, role, procVars, locVars, histVars>>

\* lines 201 / 209: self._done = True
MarkDone(t) ==
    /\ role[t] \in ProducerRoles /\ pc[t] = "set_done"
    /\ done' = [done EXCEPT ![fut[t]] = TRUE]
    /\ pc' = [pc EXCEPT ![t] = "notify_all"]
    /\ prior' = [prior EXCEPT ![fut[t]] =
                    IF done[fut[t]] \/ watchers[fut[t]] = {} THEN @
                    ELSE [done |-> {g \in Futures : done[g]},
                          completed |-> {g \in Futures : Completed(g)}]]
    /\ UNCHANGED <<result, exception, watchers, update_callbacks, cond_owner, cond_depth,
                   cond_waiters, watVars, role, procVars, locVars, ncompl, first_arg,
                   sig_count, sig_seq, sig_sync, registered, invoked, stored>>

\* mutant: notify() in place of notify_all(), one waiter is woken
NotifyAllMut(t) ==
    /\ role[t] \in ProducerRoles /\ pc[t] = "notify_all"
    /\ cond_waiters' = [cond_waiters EXCEPT ![fut[t]] =
                           IF @ = {} THEN @ ELSE @ \ {CHOOSE u \in @ : TRUE}]
    /\ Acquired(fut[t], t)
    /\ idx' = [idx EXCEPT ![t] = 1]
    /\ pc' = [pc EXCEPT ![t] = "invoke_callbacks"]
    /\ UNCHANGED <<done, result, exception, watchers, update_callbacks, watVars, role, procVars,
                   fut, arg, fset, order, snap, pending, batch, out, flag, witer, widx, histVars>>

\* lines 202 / 210: self._condition.notify_all(); then _invoke_callbacks
\* re-enters the guard (line 165)
NotifyAll(t) ==
    /\ role[t] \in ProducerRoles /\ pc[t] = "notify_all"
    /\ cond_waiters' = [cond_waiters EXCEPT ![fut[t]] = {}]
    /\ Acquired(fut[t], t)
    /\ idx' = [idx EXCEPT ![t] = 1]
    /\ pc' = [pc EXCEPT ![t] = "invoke_callbacks"]
    /\ UNCHANGED <<done, result, exception, watchers, update_callbacks, watVars, role, procVars,
                   fut, arg, fset, order, snap, pending, batch, out, flag, witer, widx, histVars>>

\* mutant: no except clause
CaughtMut(cb) == FALSE

\* "except Exception:" (lines 169, 193) catches what a callback raises
Caught(cb) == TRUE

\* _invoke_callbacks, lines 166-172: one iteration of the for loop
InvokeCallback(t) ==
    /\ role[t] \in ProducerRoles /\ pc[t] = "invoke_callbacks"
    /\ idx[t] <= Len(update_callbacks[fut[t]])
    /\ LET f == fut[t]
           cb == update_callbacks[f][idx[t]]
       IN  /\ SetCallbackState(f, RunCallback(f, cb, CallbackState(f)))
           /\ IF CallbackKind(cb) = "raises" /\ ~Caught(cb)
              THEN \* the exception leaves _invoke_callbacks and _set_result
                   /\ cond_owner' = [cond_owner EXCEPT ![f] = NoThread]
                   /\ cond_depth' = [cond_depth EXCEPT ![f] = 0]
                   /\ out' = [out EXCEPT ![t] = <<"Exception", None>>]
                   /\ pc' = [pc EXCEPT ![t] = "returned"]
                   /\ UNCHANGED idx
              ELSE /\ idx' = [idx EXCEPT ![t] = @ + 1]
                   /\ UNCHANGED <<cond_owner, cond_depth, out, pc>>
    /\ UNCHANGED <<done, result, exception, watchers, cond_waiters, watVars, role, procVars,
                   fut, arg, fset, order, snap, pending, batch, flag, witer, widx,
                   ncompl, first_arg, prior, sig_count, sig_seq, sig_sync, registered>>

\* lines 173-174 (reset the list, leave the guard of _invoke_callbacks), then
\* _notify_watchers lines 158-159: re-enter the guard and assert self._done
ClearCallbacks(t) ==
    /\ role[t] \in ProducerRoles /\ pc[t] = "invoke_callbacks"
    /\ idx[t] > Len(update_callbacks[fut[t]])
    /\ LET f == fut[t]
       IN  /\ update_callbacks' = [update_callbacks EXCEPT ![f] = <<>>]
           /\ IF done[f]
              THEN /\ snap' = [snap EXCEPT ![t] = watchers[f]]
                   /\ pc' = [pc EXCEPT ![t] = "notify_watchers"]
                   /\ UNCHANGED <<cond_owner, cond_depth, out>>
              ELSE \* AssertionError leaves _notify_watchers and _set_result
                   /\ cond_owner' = [cond_owner EXCEPT ![f] = NoThread]
                   /\ cond_depth' = [cond_depth EXCEPT ![f] = 0]
                   /\ out' = [out EXCEPT ![t] = <<"AssertionError", None>>]
                   /\ pc' = [pc EXCEPT ![t] = "returned"]
                   /\ UNCHANGED snap
    /\ UNCHANGED <<done, result, exception, watchers, cond_waiters, watVars, role, procVars,
                   fut, arg, fset, order, idx, pending, batch, flag, witer, widx, histVars>>

\* _notify_watchers, lines 160-161: one iteration of the for loop over the set
NotifyWatcher(t) ==
    /\ role[t] \in ProducerRoles /\ pc[t] = "notify_watchers"
    /\ \E w \in snap[t] :
          /\ WatcherSignal(w, fut[t])
          /\ snap' = [snap EXCEPT ![t] = @ \ {w}]
    /\ UNCHANGED <<futVars, role, procVars, pc, fut, arg, fset, order, idx, pending, batch,
                   out, flag, witer, widx, ncompl, first_arg, prior, sig_sync, registered,
                   invoked, stored>>

\* line 162, self._watchers.clear(), and leaving both guards: the call returns
ClearWatchers(t) ==
    /\ role[t] \in ProducerRoles /\ pc[t] = "notify_watchers" /\ snap[t] = {}
    /\ watchers' = [watchers EXCEPT ![fut[t]] = {}]
    /\ cond_owner' = [cond_owner EXCEPT ![fut[t]] = NoThread]
    /\ cond_depth' = [cond_depth EXCEPT ![fut[t]] = 0]
    /\ out' = [out EXCEPT ![t] = <<"return", None>>]
    /\ pc' = [pc EXCEPT ![t] = "returned"]
    /\ UNCHANGED <<done, result, exception, update_callbacks, cond_waiters, watVars, role, procVars,
                   fut, arg, fset, order, idx, snap, pending, batch, flag, witer, widx, histVars>>

\* ------------------------------------------------ WMFuture: get_result
\* mutant: the stored exception is ignored
OutcomeMut(f) == <<"return", result[f]>>

\* lines 217-220 and 224-227: raise the stored exception if it is truthy,
\* else return the stored result
Outcome(f) ==
    IF Truthy(exception[f]) THEN <<"raise", exception[f]>> ELSE <<"return", result[f]>>

\* get_result, lines 215-222: under the guard, answer if done, else wait()
GetResult(t) ==
    /\ role[t] = "reader" /\ pc[t] = "idle"
    /\ \E f \in Futures :
          /\ LockFree(f, t)
          /\ fut' = [fut EXCEPT ![t] = f]
          /\ flag' = [flag EXCEPT ![t] = done[f]]
          /\ IF done[f]
             THEN /\ out' = [out EXCEPT ![t] = Outcome(f)]
                  /\ pc' = [pc EXCEPT ![t] = "returned"]
                  /\ UNCHANGED cond_waiters
             ELSE /\ cond_waiters' = [cond_waiters EXCEPT ![f] = @ \cup {t}]
                  /\ pc' = [pc EXCEPT ![t] = "waiting"]
                  /\ UNCHANGED out
    /\ UNCHANGED <<done, result, exception, watchers, update_callbacks, watVars, role, procVars,
                   arg, fset, order, idx, snap, pending, batch, witer, widx, histVars>>

\* get_result, lines 222-227: woken by notify_all, re-acquire the guard,
\* assert self._done, answer
GetResultWake(t) ==
    /\ role[t] = "reader" /\ pc[t] = "waiting"
    /\ t \notin cond_waiters[fut[t]]
    /\ LockFree(fut[t], t)
    /\ out' = [out EXCEPT ![t] =
                  IF done[fut[t]] THEN Outcome(fut[t]) ELSE <<"AssertionError", None>>]
    /\ pc' = [pc EXCEPT ![t] = "returned"]
    /\ UNCHANGED <<done, result, exception, watchers, update_callbacks, cond_waiters,
                   watVars, role, procVars, fut, arg, fset, order, idx, snap, pending, batch, flag,
                   witer, widx, histVars>>

\* is_done, lines 247-249: the flag, read under the guard; never waits for completion
IsDone(t) ==
    /\ role[t] = "reader" /\ pc[t] = "idle"
    /\ \E f \in Futures :
          /\ LockFree(f, t)
          /\ flag' = [flag EXCEPT ![t] = done[f]]
    /\ UNCHANGED <<done, result, exception, watchers, update_callbacks, cond_waiters, watVars,
                   role, procVars, pc, fut, arg, fset, order, idx, snap, pending, batch, out,
                   witer, widx, histVars>>

\* --------------------------------------------- WMFuture: _add_callback
\* lines 189-196, one critical section: invoke at once if done, else append
AddCallback(t) ==
    /\ role[t] = "registrar" /\ pc[t] = "idle"
    /\ \E f \in Futures :
          /\ LockFree(f, t)
          /\ fut' = [fut EXCEPT ![t] = f]
          /\ flag' = [flag EXCEPT ![t] = done[f]]
          /\ SetCallbackState(f, AddCallbackBody(f, t, CallbackState(f)))
          /\ out' = [out EXCEPT ![t] =
                        IF done[f] /\ CallbackKind(t) = "raises" /\ ~Caught(t)
                        THEN <<"Exception", None>> ELSE <<"return", None>>]
    /\ pc' = [pc EXCEPT ![t] = "returned"]
    /\ UNCHANGED <<done, result, exception, watchers, cond_waiters, watVars, role, procVars,
                   arg, fset, order, idx, snap, pending, batch, witer, widx,
                   ncompl, first_arg, prior, sig_count, sig_seq, sig_sync, registered>>

\* ---------------------------------------- FutureWatcher: construction
ScopeRoles == {"as_completed", "wait_any", "scoped"}

\* FutureWatcher.__init__, lines 93-96: fresh event, lock, threshold, list
NewWatcher(t, th) ==
    /\ w_event' = [w_event EXCEPT ![t] = FALSE]
    /\ w_lock' = [w_lock EXCEPT ![t] = NoThread]
    /\ w_threshold' = [w_threshold EXCEPT ![t] = th]
    /\ w_completed' = [w_completed EXCEPT ![t] = <<>>]

\* FutureWatcher(futures, threshold) called directly on a set of futures
WatcherInit(t) ==
    /\ role[t] = "watch" /\ pc[t] = "idle"
    /\ \E S \in SUBSET Futures \ {{}} :
          /\ fset' = [fset EXCEPT ![t] = S]
          /\ \E th \in 1..Cardinality(S) : NewWatcher(t, th)
          /\ \E o \in Perms(S) : witer' = [witer EXCEPT ![t] = o]
    /\ widx' = [widx EXCEPT ![t] = 1]
    /\ pc' = [pc EXCEPT ![t] = "add_watcher"]
    /\ UNCHANGED <<futVars, role, procVars, fut, arg, order, idx, snap, pending, batch, out,
                   flag, histVars>>

\* where a thread goes once its watcher is registered on every future
AfterConstruction(t) == IF role[t] = "watch" THEN "wait" ELSE "release"

\* mutant: a watcher is never stored on a pending future
StoreWatcherMut(f, w) == watchers

\* line 184: self._watchers.add(watcher)
StoreWatcher(f, w) == [watchers EXCEPT ![f] = @ \cup {w}]

\* mutant: _add_watcher always stores the watcher, done or not
AddWatcherSeesDoneMut(f) == FALSE

\* line 180: if self._done
AddWatcherSeesDone(f) == done[f]

\* lines 98-99, one iteration: future._add_watcher(self), lines 179-184
AddWatcher(t) ==
    /\ pc[t] = "add_watcher" /\ widx[t] <= Len(witer[t])
    /\ LET f == witer[t][widx[t]]
       IN  /\ LockFree(f, t)
           /\ registered' = [registered EXCEPT ![t] = @ \cup {f}]
           /\ IF AddWatcherSeesDone(f)
              THEN /\ WatcherSignal(t, f)
                   /\ sig_sync' = [sig_sync EXCEPT ![t] = @ \cup {f}]
                   /\ UNCHANGED watchers
              ELSE /\ watchers' = StoreWatcher(f, t)
                   /\ UNCHANGED <<watVars, sig_count, sig_seq, sig_sync>>
    /\ widx' = [widx EXCEPT ![t] = @ + 1]
    /\ pc' = [pc EXCEPT ![t] =
                 IF widx[t] = Len(witer[t]) THEN AfterConstruction(t) ELSE @]
    /\ UNCHANGED <<done, result, exception, update_callbacks, cond_waiters, role, procVars,
                   fut, arg, fset, order, idx, snap, pending, batch, out, flag, witer, ncompl,
                   first_arg, prior, invoked, stored>>

\* -------------------------------------------- FutureWatcher: wait, reset
\* lines 110-111: self.event.wait()
WatcherWait(t) ==
    /\ pc[t] = "wait" /\ w_event[t]
    /\ pc' = [pc EXCEPT ![t] = "reset"]
    /\ UNCHANGED <<futVars, watVars, role, procVars, locVars, histVars>>

\* reset, lines 116-117: take self.lock, clear the event
ResetClear(t) ==
    /\ pc[t] = "reset" /\ w_lock[t] = NoThread
    /\ w_lock' = [w_lock EXCEPT ![t] = t]
    /\ w_event' = [w_event EXCEPT ![t] = FALSE]
    /\ pc' = [pc EXCEPT ![t] = "reset_swap"]
    /\ UNCHANGED <<futVars, w_threshold, w_completed, role, procVars, locVars, histVars>>

\* list.pop(): the last element
Pop(s) == s[Len(s)]

\* as_completed, line 61: "while pending"
WhilePending(p) == IF p = {} THEN "finished" ELSE "wait"

\* reset, lines 118-120: swap the list for an empty one, release self.lock,
\* return the old list to the caller (lines 63, 81 or a direct caller)
ResetSwap(t) ==
    /\ pc[t] = "reset_swap"
    /\ batch' = [batch EXCEPT ![t] = w_completed[t]]
    /\ w_completed' = [w_completed EXCEPT ![t] = <<>>]
    /\ w_lock' = [w_lock EXCEPT ![t] = NoThread]
    /\ IF role[t] = "watch"
       THEN \* a direct caller keeps what it drained and waits again
            /\ out' = [out EXCEPT ![t] = @ \o w_completed[t]]
            /\ flag' = [flag EXCEPT ![t] = TRUE]
            /\ pc' = [pc EXCEPT ![t] = "wait"]
       ELSE IF role[t] = "wait_any"
       THEN \* line 82: return completed.pop()
            /\ out' = [out EXCEPT ![t] = <<"return", Pop(w_completed[t])>>]
            /\ pc' = [pc EXCEPT ![t] = "returned"]
            /\ UNCHANGED flag
       ELSE \* as_completed, line 64: for future in completed
            /\ pc' = [pc EXCEPT ![t] =
                         IF w_completed[t] = <<>> THEN WhilePending(pending[t]) ELSE "yield"]
            /\ UNCHANGED <<out, flag>>
    /\ UNCHANGED <<futVars, w_event, w_threshold, role, procVars, fut, arg, fset, order, idx, snap,
                   pending, witer, widx, histVars>>

\* -------------------------------------------- WMFuture.all_acquired
\* lines 47 / 69, "pending = set(futures)", and line 128, "futures =
\* list(futures)": the list is the set in its iteration order, which
\* Python leaves to the hash table (any order)
AllAcquiredCall(t) ==
    /\ role[t] \in ScopeRoles /\ pc[t] = "idle"
    /\ \E S \in SUBSET Futures \ {{}} :
          /\ fset' = [fset EXCEPT ![t] = S]
          /\ pending' = [pending EXCEPT ![t] = S]
          /\ \E o \in Perms(S) : order' = [order EXCEPT ![t] = o]
          \* what the caller could have seen of S at the call
          /\ flag' = [flag EXCEPT ![t] = \E f \in S : done[f]]
    /\ idx' = [idx EXCEPT ![t] = 1]
    /\ pc' = [pc EXCEPT ![t] = "acquire"]
    /\ UNCHANGED <<futVars, watVars, role, procVars, fut, arg, snap, batch, out, witer, widx,
                   histVars>>

\* lines 129-130, one iteration: future._condition.acquire()
AllAcquiredEnter(t) ==
    /\ role[t] \in ScopeRoles /\ pc[t] = "acquire"
    /\ Acquired(order[t][idx[t]], t)
    /\ idx' = [idx EXCEPT ![t] = IF idx[t] = Len(order[t]) THEN 1 ELSE @ + 1]
    /\ pc' = [pc EXCEPT ![t] = IF idx[t] = Len(order[t]) THEN "body" ELSE @]
    /\ UNCHANGED <<done, result, exception, watchers, update_callbacks, cond_waiters,
                   watVars, role, procVars, fut, arg, fset, order, snap, pending, batch, out, flag,
                   witer, widx, histVars>>

\* mutant: the snapshot finds no future done
DoneAmongMut(S) == {}

\* is_done, lines 247-249, read under the guard: the futures of S that are done
DoneAmong(S) == {f \in S : done[f]}

\* every guard the "done" property takes can be taken by t
CanSnapshot(S, t) == \A f \in S : CanAcquire(f, t)

\* as_completed, lines 51-53: snapshot, pending -= completed, build the watcher
AsCompletedBody(t) ==
    /\ role[t] = "as_completed" /\ pc[t] = "body"
    /\ CanSnapshot(fset[t], t)
    /\ LET completed == DoneAmong(fset[t])
           rest == pending[t] \ completed
       IN  /\ snap' = [snap EXCEPT ![t] = completed]
           /\ pending' = [pending EXCEPT ![t] = rest]
           /\ NewWatcher(t, 1)
           /\ \E o \in Perms(rest) : witer' = [witer EXCEPT ![t] = o]
           /\ widx' = [widx EXCEPT ![t] = 1]
           /\ pc' = [pc EXCEPT ![t] = IF rest = {} THEN "release" ELSE "add_watcher"]
    /\ UNCHANGED <<futVars, role, procVars, fut, arg, fset, order, idx, batch, out, flag,
                   histVars>>

\* wait_any, lines 71-78: snapshot; return a done future, or build the watcher
WaitAnyBody(t) ==
    /\ role[t] = "wait_any" /\ pc[t] = "body"
    /\ CanSnapshot(fset[t], t)
    /\ LET completed == DoneAmong(fset[t])
       IN  /\ snap' = [snap EXCEPT ![t] = completed]
           /\ IF completed # {}
              THEN \* line 75: return completed.pop(), any member of the set
                   /\ \E f \in completed : out' = [out EXCEPT ![t] = <<"return", f>>]
                   /\ pc' = [pc EXCEPT ![t] = "release"]
                   /\ UNCHANGED <<watVars, witer, widx>>
              ELSE \* line 78: FutureWatcher(futures, threshold = 1)
                   /\ NewWatcher(t, 1)
                   /\ \E o \in Perms(fset[t]) : witer' = [witer EXCEPT ![t] = o]
                   /\ widx' = [widx EXCEPT ![t] = 1]
                   /\ pc' = [pc EXCEPT ![t] = "add_watcher"]
                   /\ UNCHANGED out
    /\ UNCHANGED <<futVars, role, procVars, fut, arg, fset, order, idx, pending, batch, flag,
                   histVars>>

\* a with-block of a direct caller of all_acquired that ends normally
ScopedBodyEnds(t) ==
    /\ role[t] = "scoped" /\ pc[t] = "body"
    /\ pc' = [pc EXCEPT ![t] = "release"]
    /\ UNCHANGED <<futVars, watVars, role, procVars, locVars, histVars>>

\* a with-block that raises: contextlib throws the exception into the
\* generator at its yield (line 132); nothing catches it there, so lines
\* 134-135 do not run and the exception leaves the with statement
ScopedBodyRaises(t) ==
    /\ role[t] = "scoped" /\ pc[t] = "body"
    /\ out' = [out EXCEPT ![t] = <<"Exception", None>>]
    /\ pc' = [pc EXCEPT ![t] = "exited"]
    /\ UNCHANGED <<futVars, watVars, role, procVars, fut, arg, fset, order, idx, snap, pending,
                   batch, flag, witer, widx, histVars>>

\* where a thread goes when the with statement is left
AfterScope(t) ==
    IF role[t] = "scoped" THEN "exited"
    ELSE IF role[t] = "wait_any" THEN (IF snap[t] # {} THEN "returned" ELSE "wait")
    ELSE IF snap[t] # {} THEN "yield_done" ELSE WhilePending(pending[t])

\* lines 134-135, one iteration: future._condition.release()
AllAcquiredExit(t) ==
    /\ role[t] \in ScopeRoles /\ pc[t] = "release"
    /\ Released(order[t][idx[t]], t)
    /\ idx' = [idx EXCEPT ![t] = @ + 1]
    /\ pc' = [pc EXCEPT ![t] = IF idx[t] = Len(order[t]) THEN AfterScope(t) ELSE @]
    /\ UNCHANGED <<done, result, exception, watchers, update_callbacks, cond_waiters,
                   watVars, role, procVars, fut, arg, fset, order, snap, pending, batch, out, flag,
                   witer, widx, histVars>>

\* ---------------------------------------------- as_completed: yielding
\* lines 56-58: yield one future of the snapshot (a set, in any order)
YieldDone(t) ==
    /\ role[t] = "as_completed" /\ pc[t] = "yield_done"
    /\ \E f \in snap[t] \ Range(out[t]) :
          /\ out' = [out EXCEPT ![t] = Append(@, f)]
          /\ pc' = [pc EXCEPT ![t] =
                       IF snap[t] \subseteq Range(out[t]) \cup {f}
                       THEN WhilePending(pending[t]) ELSE @]
    /\ UNCHANGED <<futVars, watVars, role, procVars, fut, arg, fset, order, idx, snap, pending,
                   batch, flag, witer, widx, histVars>>

\* lines 64-66, one iteration: yield future; pending.remove(future)
\* (set.remove raises KeyError for a future that is not pending)
YieldCompleted(t) ==
    /\ role[t] = "as_completed" /\ pc[t] = "yield"
    /\ LET f == Head(batch[t])
       IN  /\ out' = [out EXCEPT ![t] = Append(@, f)]
           /\ batch' = [batch EXCEPT ![t] = Tail(@)]
           /\ pending' = [pending EXCEPT ![t] = @ \ {f}]
           /\ pc' = [pc EXCEPT ![t] =
                        IF f \notin pending[t] THEN "raised"
                        ELSE IF Tail(batch[t]) = <<>> THEN WhilePending(pending[t] \ {f})
                        ELSE @]
    /\ UNCHANGED <<futVars, watVars, role, procVars, fut, arg, fset, order, idx, snap, flag, witer,
                   widx, histVars>>

\* ----------------------------------------------- WMFuture: get_exception
\* get_exception, lines 237-238: under the guard, "if self._returned:".
\* No line of the class assigns _returned (__init__, lines 137-151, does
\* not), so the attribute lookup raises AttributeError on every call, Done
\* future or not; the with statement releases the guard and lines 239-243
\* are never reached.
GetException(t) ==
    /\ role[t] = "exc_reader" /\ pc[t] = "idle"
    /\ \E f \in Futures :
          /\ LockFree(f, t)
          /\ fut' = [fut EXCEPT ![t] = f]
          /\ flag' = [flag EXCEPT ![t] = done[f]]
    /\ out' = [out EXCEPT ![t] = <<"AttributeError", None>>]
    /\ pc' = [pc EXCEPT ![t] = "returned"]
    /\ UNCHANGED <<done, result, exception, watchers, update_callbacks, cond_waiters,
                   watVars, role, procVars, arg, fset, order, idx, snap, pending, batch,
                   witer, widx, histVars>>

\* ---------------------------------------------------------------- wait_all
\* A "wait_all" thread passes any list without repetition of futures; a
\* "wait_shared" thread passes the one list of all futures that the threads
\* of its kind share (the futures in the order they were submitted).
WaitAllRoles == {"wait_all", "wait_shared"}
SharedList == [i \in 1..NumFutures |-> i]
Collections(t) ==
    IF role[t] = "wait_shared" THEN {SharedList}
    ELSE UNION {Perms(S) : S \in SUBSET Futures \ {{}}}

\* wait_all(futures), lines 85-87: results = []; the for loop runs over the
\* collection in the order the caller gave it
WaitAllCall(t) ==
    /\ role[t] \in WaitAllRoles /\ pc[t] = "idle"
    /\ \E o \in Collections(t) :
          /\ fset' = [fset EXCEPT ![t] = Range(o)]
          /\ order' = [order EXCEPT ![t] = o]
    /\ idx' = [idx EXCEPT ![t] = 1]
    /\ batch' = [batch EXCEPT ![t] = <<>>]
    /\ pc' = [pc EXCEPT ![t] = "get"]
    /\ UNCHANGED <<futVars, watVars, role, procVars, fut, arg, snap, pending, out, flag, witer,
                   widx, histVars>>

\* what get_result answered on f, lines 217-220 / 224-227, and what the loop
\* does with it, lines 88-89: a raise leaves wait_all, a value is appended
\* and the loop goes on or the list is returned
WaitAllTakes(t, f) ==
    IF ~done[f]
    THEN /\ out' = [out EXCEPT ![t] = <<"AssertionError", None>>]
         /\ pc' = [pc EXCEPT ![t] = "raised"]
         /\ UNCHANGED <<batch, idx>>
    ELSE IF Outcome(f)[1] = "raise"
    THEN /\ out' = [out EXCEPT ![t] = Outcome(f)]
         /\ pc' = [pc EXCEPT ![t] = "raised"]
         /\ UNCHANGED <<batch, idx>>
    ELSE /\ batch' = [batch EXCEPT ![t] = Append(@, Outcome(f)[2])]
         /\ idx' = [idx EXCEPT ![t] = @ + 1]
         /\ pc' = [pc EXCEPT ![t] = IF idx[t] = Len(order[t]) THEN "returned" ELSE "get"]
         /\ out' = [out EXCEPT ![t] = IF idx[t] = Len(order[t]) THEN <<"return", None>> ELSE @]

\* line 88, future.result: get_result lines 215-222 on the next future
WaitAllGet(t) ==
    /\ role[t] \in WaitAllRoles /\ pc[t] = "get"
    /\ LET f == order[t][idx[t]]
       IN  /\ LockFree(f, t)
           /\ fut' = [fut EXCEPT ![t] = f]
           /\ IF done[f]
              THEN /\ WaitAllTakes(t, f)
                   /\ UNCHANGED <<cond_waiters, flag>>
              ELSE /\ cond_waiters' = [cond_waiters EXCEPT ![f] = @ \cup {t}]
                   /\ flag' = [flag EXCEPT ![t] = TRUE]
                   /\ pc' = [pc EXCEPT ![t] = "waiting"]
                   /\ UNCHANGED <<batch, idx, out>>
    /\ UNCHANGED <<done, result, exception, watchers, update_callbacks, watVars, role, procVars,
                   arg, fset, order, snap, pending, witer, widx, histVars>>

\* get_result, lines 222-227, inside wait_all: woken by notify_all
WaitAllWake(t) ==
    /\ role[t] \in WaitAllRoles /\ pc[t] = "waiting"
    /\ t \notin cond_waiters[fut[t]]
    /\ LockFree(fut[t], t)
    /\ WaitAllTakes(t, fut[t])
    /\ UNCHANGED <<done, result, exception, watchers, update_callbacks, cond_waiters,
                   watVars, role, procVars, fut, arg, fset, order, snap, pending, flag, witer, widx,
                   histVars>>

\* ------------------------------------- WEMDWorkManager and the w_states command
\* everything but the process's work manager and script
threadVars == <<futVars, watVars, role, pc, locVars, histVars>>

MODE_MASTER == 1
MODE_WORKER == 2

\* w_states line 57 calling WEMDWorkManager.startup, lines 36-37: the base
\* class records MODE_MASTER and returns it
Startup ==
    /\ ws_pc = "start"
    /\ mode' = MODE_MASTER
    /\ ws_mode' = MODE_MASTER
    /\ ws_pc' = "check"
    /\ UNCHANGED <<shutdown_called, ws_exit, ws_backing, threadVars>>

\* the same call on the work manager of a transport in a worker process:
\* it records MODE_WORKER and returns it
StartupWorker ==
    /\ ws_pc = "start"
    /\ mode' = MODE_WORKER
    /\ ws_mode' = MODE_WORKER
    /\ ws_pc' = "check"
    /\ UNCHANGED <<shutdown_called, ws_exit, ws_backing, threadVars>>

\* mutant: the script never refuses
RefusesToOriginateMut(m) == FALSE

\* w_states line 58: if mode != work_manager.MODE_MASTER
RefusesToOriginate(m) == m # MODE_MASTER

\* w_states lines 58-60: write the message and sys.exit(2), or go on
CheckMode ==
    /\ ws_pc = "check"
    /\ IF RefusesToOriginate(ws_mode)
       THEN ws_exit' = 2 /\ ws_pc' = "exited"
       ELSE ws_pc' = "open" /\ UNCHANGED ws_exit
    /\ UNCHANGED <<mode, shutdown_called, ws_mode, ws_backing, threadVars>>

\* w_states lines 63-64: get the data manager and open its backing store
OpenBacking ==
    /\ ws_pc = "open"
    /\ ws_backing' = TRUE
    /\ ws_pc' = "states"
    /\ UNCHANGED <<mode, shutdown_called, ws_mode, ws_exit, threadVars>>

\* w_states lines 65-144 and 148-149: the states are read (--show) or saved
\* (--replace, --append), then work_manager.shutdown(0), lines 39-41, and
\* the script ends
StatesDone ==
    /\ ws_pc = "states"
    /\ shutdown_called' = TRUE
    /\ ws_exit' = 0
    /\ ws_pc' = "exited"
    /\ UNCHANGED <<mode, ws_mode, ws_backing, threadVars>>

\* w_states lines 145-147: anything raised inside the try block, among them
\* sys.exit(2) of line 127, calls work_manager.shutdown(4) and is raised again
StatesFail ==
    /\ ws_pc = "states"
    /\ shutdown_called' = TRUE
    /\ \E status \in {1, 2} : ws_exit' = status
    /\ ws_pc' = "exited"
    /\ UNCHANGED <<mode, ws_mode, ws_backing, threadVars>>

\* ------------------------------------------------------- initial states
InitWith(r) ==
    /\ role = r
    /\ done = [f \in Futures |-> FALSE]
    /\ result = [f \in Futures |-> None]
    /\ exception = [f \in Futures |-> None]
    /\ watchers = [f \in Futures |-> {}]
    /\ update_callbacks = [f \in Futures |-> <<>>]
    /\ cond_owner = [f \in Futures |-> NoThread]
    /\ cond_depth = [f \in Futures |-> 0]
    /\ cond_waiters = [f \in Futures |-> {}]
    /\ w_event = [t \in DOMAIN r |-> FALSE]
    /\ w_lock = [t \in DOMAIN r |-> NoThread]
    /\ w_threshold = [t \in DOMAIN r |-> 1]
    /\ w_completed = [t \in DOMAIN r |-> <<>>]
    /\ pc = [t \in DOMAIN r |-> "idle"]
    /\ fut = [t \in DOMAIN r |-> 0]
    \* the callback each registrar will register is an input
    /\ arg \in {a \in [DOMAIN r -> CallbackKinds \cup {"-"}] :
                  \A t \in DOMAIN r : (r[t] = "registrar") <=> (a[t] \in CallbackKinds)}
    /\ fset = [t \in DOMAIN r |-> {}]
    /\ order = [t \in DOMAIN r |-> <<>>]
    /\ idx = [t \in DOMAIN r |-> 1]
    /\ snap = [t \in DOMAIN r |-> {}]
    /\ pending = [t \in DOMAIN r |-> {}]
    /\ batch = [t \in DOMAIN r |-> <<>>]
    /\ out = [t \in DOMAIN r |-> <<>>]
    /\ flag = [t \in DOMAIN r |-> FALSE]
    /\ witer = [t \in DOMAIN r |-> <<>>]
    /\ widx = [t \in DOMAIN r |-> 1]
    /\ ncompl = [f \in Futures |-> 0]
    /\ first_arg = [f \in Futures |-> <<>>]
    /\ sig_count = [t \in DOMAIN r |-> [f \in Futures |-> 0]]
    /\ sig_sync = [t \in DOMAIN r |-> {}]
    /\ registered = [t \in DOMAIN r |-> {}]
    /\ invoked = [f \in Futures |-> <<>>]
    /\ stored = [f \in Futures |-> <<>>]
    /\ sig_seq = [t \in DOMAIN r |-> <<>>]
    /\ prior = [f \in Futures |-> [done |-> {}, completed |-> {}]]
    /\ mode = None
    /\ shutdown_called = FALSE
    /\ ws_pc = "start"
    /\ ws_mode = None
    /\ ws_exit = None
    /\ ws_backing = FALSE

\* ------------------------------------------------------------ claims
Readers == {t \in Threads : role[t] = "reader"}
Producers == {t \in Threads : role[t] = "producer"}

\* what get_result is to do for a future completed by the call with payload p
Expected(p) == IF p[1] = "result" THEN <<"return", p[2]>> ELSE <<"raise", p[2]>>

\* C1: a get_result call that has returned or raised did so on a Done future,
\* and if the future was completed by exactly one set_result(v) or
\* set_exception(e) call, it returned exactly v or raised exactly e, for
\* every reader, whether it entered before or after the completion.
C1_GetResultGivesThePayload ==
    \A t \in Readers :
        pc[t] = "returned" =>
            /\ done[fut[t]]
            /\ ncompl[fut[t]] = 1 => out[t] = Expected(first_arg[fut[t]])

\* a future completed once by set_exception, read by a reader that waited
\* for it and by a reader that came after
C1_Witness ==
    \E t1, t2 \in Readers :
        /\ pc[t1] = "returned" /\ pc[t2] = "returned"
        /\ fut[t1] = fut[t2] /\ ncompl[fut[t1]] = 1
        /\ ~flag[t1] /\ flag[t2]
        /\ out[t1][1] = "raise" /\ out[t2] = out[t1]

\* C2: a set_result or set_exception call on a future that is already Done
\* fails with ProtocolMisuse and changes nothing of the future.
C2_SecondCompletionIsRefused ==
    [][\A t \in Producers :
          (pc[t] = "idle" /\ pc'[t] # "idle" /\ done[fut'[t]]) =>
              /\ result' = result /\ exception' = exception
              /\ watchers' = watchers /\ update_callbacks' = update_callbacks
              /\ pc'[t] = "returned" /\ out'[t] = <<"ProtocolMisuse", None>>]_vars

\* C3: once a future is Done it stays Done and its stored result and stored
\* exception keep the values they had when it became Done.
C3_DoneIsFinal ==
    [][\A f \in Futures :
          done[f] => /\ done'[f]
                     /\ result'[f] = result[f]
                     /\ exception'[f] = exception[f]]_vars

Watchers == {t \in Threads : role[t] \in {"watch", "as_completed", "wait_any"}}
Registrars == {t \in Threads : role[t] = "registrar"}

\* C4: for every watcher W and future F, W.signal(F) is invoked at most
\* once; a watcher registered on F has been signalled exactly once when F
\* is Done and the completing call has returned; a watcher signalled from
\* inside _add_watcher (F was Done already) is not stored; a watcher stored
\* on a future that no call is completing has not been signalled yet; a
\* completed future has no stored watcher.
C4_WatcherSignalledExactlyOnce ==
    \A w \in Watchers, f \in Futures :
        /\ sig_count[w][f] <= 1
        /\ sig_count[w][f] = 1 => (done[f] /\ f \in registered[w])
        /\ (f \in registered[w] /\ Completed(f)) => sig_count[w][f] = 1
        /\ f \in sig_sync[w] => (w \notin watchers[f] /\ sig_count[w][f] = 1)
        /\ w \in watchers[f] => (f \in registered[w] /\ f \notin sig_sync[w])
        /\ (w \in watchers[f] /\ ~Completing(f)) => sig_count[w][f] = 0
        /\ Completed(f) => watchers[f] = {}

\* one watcher, signalled at registration for one future and at completion
\* for another
C4_Witness ==
    \E w \in Watchers, f, g \in Futures :
        /\ f \in sig_sync[w] /\ sig_count[w][f] = 1
        /\ g \in registered[w] \ sig_sync[w] /\ sig_count[w][g] = 1
        /\ Completed(f) /\ Completed(g)

Count(s, x) == Cardinality({i \in DOMAIN s : s[i] = x})

\* the callbacks of s that were stored on f, in the order s has them
StoredOnly(s, f) == LET WasStored(c) == c \in Range(stored[f]) IN SelectSeq(s, WasStored)

\* C5: no callback is invoked more than once, and none before its future is
\* Done; a callback whose registration has returned has been invoked
\* exactly once when the future is Done and the completing call has
\* returned; one registered on a Done future was invoked inside the
\* registration and never stored; a callback registered by a callback is
\* invoked with it; the stored callbacks are invoked in the order they were
\* stored; a completed future stores no callback.
C5_CallbackInvokedExactlyOnce ==
    /\ \A f \in Futures :
          /\ \A c \in Range(invoked[f]) : Count(invoked[f], c) = 1
          /\ invoked[f] # <<>> => done[f]
          /\ Completed(f) => /\ update_callbacks[f] = <<>>
                             /\ StoredOnly(invoked[f], f) = stored[f]
    /\ \A t \in Registrars :
          pc[t] = "returned" =>
              /\ \A f \in Futures \ {fut[t]} : t \notin Range(invoked[f])
              /\ Completed(fut[t]) => Count(invoked[fut[t]], t) = 1
              /\ flag[t] => /\ Count(invoked[fut[t]], t) = 1
                            /\ t \notin Range(stored[fut[t]])
              /\ ~flag[t] => t \in Range(stored[fut[t]])
              /\ arg[t] = "nested" =>
                    Count(invoked[fut[t]], -t) = Count(invoked[fut[t]], t)

\* a future completed with two stored callbacks, the first of which
\* registered a third from inside its invocation
C5_Witness ==
    \E f \in Futures :
        /\ Completed(f) /\ Len(stored[f]) = 2
        /\ CallbackKind(stored[f][1]) = "nested"
        /\ invoked[f] = <<stored[f][1], -stored[f][1], stored[f][2]>>

\* the members of S that are Done / Done with the completing call returned
NumDone(S) == Cardinality({f \in S : done[f]})
NumCompleted(S) == Cardinality({f \in S : Completed(f)})

\* C9: a watcher built over S with threshold t and not yet reset has its
\* event set only if at least t members of S are Done, and has it set
\* whenever t members are Done with their completing calls returned; the
\* event is set exactly when len(completed) >= threshold.
C9_EventSetAtThreshold ==
    \A w \in Threads :
        (role[w] = "watch" /\ ~flag[w] /\ pc[w] \in {"add_watcher", "wait", "reset"}) =>
            /\ w_event[w] => NumDone(fset[w]) >= w_threshold[w]
            /\ w_event[w] <=> (Len(w_completed[w]) >= w_threshold[w])
            /\ (pc[w] # "add_watcher" /\ NumCompleted(fset[w]) >= w_threshold[w])
                  => w_event[w]

\* a watcher over two futures with threshold 2, one Done before it was
\* built and one after, with its event set
C9_Witness ==
    \E w \in Threads :
        /\ role[w] = "watch" /\ ~flag[w] /\ pc[w] = "wait"
        /\ w_threshold[w] = 2 /\ w_event[w]
        /\ \E f, g \in fset[w] : f \in sig_sync[w] /\ g \notin sig_sync[w]

\* a thread inside the with-block of all_acquired
InBody(t) == pc[t] \in {"body", "add_watcher"}

\* a thread that has left the with statement of all_acquired
LeftScope(t) ==
    /\ role[t] \in ScopeRoles
    /\ pc[t] \notin {"idle", "acquire", "body", "add_watcher", "release"}

\* a consumer whose with-block built a watcher: as_completed always does,
\* wait_any when no future of its snapshot was Done
BuiltWatcher(t) ==
    /\ role[t] \in {"as_completed", "wait_any"}
    /\ pc[t] \notin {"idle", "acquire", "body", "add_watcher"}
    /\ (role[t] = "wait_any" => snap[t] = {})

\* C6: while a consumer is inside its with-block it holds the guard of
\* every input future, so no completion runs between its snapshot and its
\* registration; once the block has built the watcher, every input future
\* is in the snapshot or had the watcher registered on it while still
\* Pending (never signalled from inside _add_watcher), and every input
\* future that has completed is in the snapshot or has signalled the watcher.
C6_NoLostWakeup ==
    \A t \in Threads :
        /\ (role[t] \in {"as_completed", "wait_any"} /\ InBody(t)) =>
              \A f \in fset[t] :
                  /\ cond_owner[f] = t
                  /\ pc[t] = "add_watcher" => (f \in snap[t] <=> done[f])
        /\ BuiltWatcher(t) =>
              \A f \in fset[t] :
                  /\ f \in snap[t] \/ (f \in registered[t] /\ f \notin sig_sync[t])
                  /\ Completed(f) => (f \in snap[t] \/ sig_count[t][f] = 1)

\* as_completed over two futures, one in the snapshot and one that completed
\* and signalled the watcher after the with-block was left
C6_Witness ==
    \E t \in Threads, f, g \in Futures :
        /\ role[t] = "as_completed" /\ BuiltWatcher(t)
        /\ fset[t] = {f, g} /\ f \in snap[t]
        /\ g \notin snap[t] /\ Completed(g) /\ sig_count[t][g] = 1

\* C7: a thread that has left the with statement of all_acquired, on any
\* exit path, holds no future's guard.
C7_GuardsReleasedOnEveryExit ==
    \A t \in Threads : LeftScope(t) => \A f \in Futures : cond_owner[f] # t

\* a thread blocked in all_acquired on a guard that thread u holds
WaitsFor(t, u) ==
    /\ role[t] \in ScopeRoles /\ pc[t] = "acquire"
    /\ cond_owner[order[t][idx[t]]] = u

\* C8: two threads entering all_acquired over overlapping sets of futures
\* never each wait for a guard the other holds.
C8_NoCircularWait ==
    \A t, u \in Threads : t # u => ~(WaitsFor(t, u) /\ WaitsFor(u, t))

\* C10: as_completed yields no future twice, yields only members of its
\* input that are Done, has yielded every member that was Done at its
\* snapshot before it first waits on the watcher, is not left waiting with
\* the event clear while a pending member has completed, never fails in
\* pending.remove, and has yielded every member when it ends.
C10_AsCompletedYieldsEachOnce ==
    \A t \in Threads :
        role[t] = "as_completed" =>
            /\ \A i, j \in DOMAIN out[t] : out[t][i] = out[t][j] => i = j
            /\ \A f \in Range(out[t]) : f \in fset[t] /\ done[f]
            /\ pc[t] \in {"wait", "reset", "reset_swap", "yield", "finished"} =>
                  snap[t] \subseteq Range(out[t])
            /\ (pc[t] = "wait" /\ \E f \in pending[t] : Completed(f)) => w_event[t]
            /\ pc[t] # "raised"
            /\ pc[t] = "finished" => Range(out[t]) = fset[t]

\* as_completed over two futures, one Done at the snapshot and one completed
\* later, ended after yielding both
C10_Witness ==
    \E t \in Threads :
        /\ role[t] = "as_completed" /\ pc[t] = "finished"
        /\ Cardinality(fset[t]) = 2 /\ Cardinality(snap[t]) = 1
        /\ Len(out[t]) = 2 /\ out[t][1] \in snap[t]

WaitAnys == {t \in Threads : role[t] = "wait_any"}

\* C11: a wait_any call over a collection of which some member was Done
\* when the call was made never builds a watcher, never registers one on a
\* future, never waits for one, and what it returns is a Done member of the
\* collection.
C11_WaitAnyOnDoneMemberBuildsNoWatcher ==
    \A t \in WaitAnys :
        (pc[t] # "idle" /\ flag[t]) =>
            /\ pc[t] \in {"acquire", "body", "release", "returned"}
            /\ registered[t] = {} /\ sig_seq[t] = <<>>
            /\ \A f \in Futures : t \notin watchers[f]
            /\ ~w_event[t] /\ w_completed[t] = <<>> /\ batch[t] = <<>>
            /\ pc[t] \in {"release", "returned"} =>
                  /\ out[t][1] = "return"
                  /\ out[t][2] \in fset[t] /\ done[out[t][2]]
                  /\ snap[t] # {}

\* wait_any over two futures, one Done at the call and one still pending
\* when the call has returned
C11_Witness ==
    \E t \in WaitAnys :
        /\ pc[t] = "returned" /\ flag[t]
        /\ Cardinality(fset[t]) = 2
        /\ \E g \in fset[t] : ~done[g]

\* C12: a wait_any call over a collection of which no member was Done when
\* the call was made returns a Done member of the collection, and no other
\* member signalled the call's watcher before the returned one did.
C12_WaitAnyReturnsFirstCompleted ==
    \A t \in WaitAnys :
        (pc[t] = "returned" /\ ~flag[t]) =>
            /\ out[t][1] = "return"
            /\ out[t][2] \in fset[t] /\ done[out[t][2]]
            /\ sig_seq[t] # <<>> => out[t][2] = sig_seq[t][1]

WaitAlls == {t \in Threads : role[t] \in WaitAllRoles}

\* the position in t's input order of the first future that holds a failure
\* (0 if none does)
FirstFailed(t) ==
    LET failed == {i \in DOMAIN order[t] : Truthy(exception[order[t][i]])}
    IN  IF failed = {} THEN 0 ELSE CHOOSE i \in failed : \A j \in failed : i <= j

\* what wait_all is to have done when it has ended
WaitAllAnswers(t) ==
    /\ pc[t] = "returned" =>
          /\ \A f \in fset[t] : done[f]
          /\ FirstFailed(t) = 0
          /\ out[t] = <<"return", None>>
          /\ batch[t] = [i \in DOMAIN order[t] |-> result[order[t][i]]]
    /\ pc[t] = "raised" =>
          /\ FirstFailed(t) # 0
          /\ out[t] = <<"raise", exception[order[t][FirstFailed(t)]]>>

\* C13: at the step a wait_all call returns, every future of its collection
\* is Done, none of them holds a failure, and the list it returns holds their
\* results in input order; at the step a wait_all call raises, what it raises
\* is the failure of the first failed future in input order.
C13_WaitAllResultsInInputOrder ==
    [][\A t \in WaitAlls :
          (pc[t] \notin {"returned", "raised"} /\ pc'[t] \in {"returned", "raised"}) =>
              WaitAllAnswers(t)']_vars

\* the same at every later moment, over collections whose futures were each
\* completed by one call only
C13_OverFuturesCompletedOnce ==
    \A t \in WaitAlls : (\A f \in fset[t] : ncompl[f] <= 1) => WaitAllAnswers(t)

\* what the owners' futures hold when all are completed, in t's input order
ExpectedList(t) == [i \in DOMAIN order[t] |-> Payload(order[t][i])]

AllWaitersReturned ==
    \A t \in WaitAlls :
        /\ pc[t] = "returned" /\ out[t] = <<"return", None>>
        /\ batch[t] = ExpectedList(t)

\* C14: when every future is completed by set_result once, by its own
\* thread, while other threads call wait_all on the shared list of these
\* futures, then under fair scheduling of every thread all wait_all calls
\* return, each with the complete list of the results in input order, and
\* stay returned; and a completion leaves no thread waiting on the future's
\* condition.
C14_EveryWaiterReturns ==
    /\ [](\A f \in Futures : Completed(f) => cond_waiters[f] = {})
    /\ <>[]AllWaitersReturned

\* two wait_all calls over the shared list that both blocked in get_result
\* and both returned the full list
C14_Witness ==
    \E t, u \in WaitAlls :
        /\ t # u /\ order[t] = order[u] /\ Len(order[t]) = NumFutures
        /\ flag[t] /\ flag[u]
        /\ AllWaitersReturned

Completers == {t \in Threads : role[t] \in ProducerRoles}

\* the payload of t's call is in the slot of t's future
PayloadStored(t) ==
    IF arg[t][1] = "result" THEN result[fut[t]] = arg[t][2]
    ELSE exception[fut[t]] = arg[t][2]

\* C15: a callback that raises, when the future is completed or when it is
\* registered on a Done future, stops nothing: the completing call and the
\* registering call return normally, and once the completing call has
\* returned the future is Done with the call's payload, every callback that
\* was stored on it has been invoked, in the order stored, and every watcher
\* registered on it has been signalled once.
C15_CallbackFailureIsIsolated ==
    /\ \A t \in Completers :
          pc[t] = "returned" => (out[t] = <<"return", None>> /\ done[fut[t]] /\ PayloadStored(t))
    /\ \A t \in Registrars :
          pc[t] = "returned" =>
              /\ out[t] = <<"return", None>>
              /\ flag[t] => Count(invoked[fut[t]], t) = 1
    /\ \A f \in Futures :
          Completed(f) =>
              /\ StoredOnly(invoked[f], f) = stored[f]
              /\ \A w \in Watchers : f \in registered[w] => sig_count[w][f] = 1

\* a future completed with two stored callbacks of which the first raised,
\* the second was invoked after it, and a stored watcher was signalled
C15_Witness ==
    \E f \in Futures, w \in Watchers :
        /\ Completed(f) /\ Len(stored[f]) = 2 /\ invoked[f] = stored[f]
        /\ CallbackKind(stored[f][1]) = "raises"
        /\ sig_count[w][f] = 1 /\ f \notin sig_sync[w]

\* C17: a set_result or set_exception call holds the future's guard from
\* its first effect to its return, and its effects come in this order:
\* payload stored, future marked Done, waiting readers woken, the stored
\* callbacks invoked, the stored watchers signalled.  So a callback has run
\* or a watcher has been signalled only for a future that is Done and holds
\* its payload, the assertion of _notify_watchers does not fail, and a
\* watcher has been signalled for a future only when every callback stored
\* on that future has run.
C17_CompletionEffectsInOrder ==
    /\ \A t \in Completers :
          /\ pc[t] \notin {"idle", "returned"} =>
                (cond_owner[fut[t]] = t /\ PayloadStored(t))
          /\ pc[t] = "set_done" =>
                \A w \in Watchers : w \in watchers[fut[t]] => sig_count[w][fut[t]] = 0
          /\ pc[t] \in {"notify_all", "invoke_callbacks", "notify_watchers"} => done[fut[t]]
          /\ pc[t] \in {"set_done", "notify_all"} => invoked[fut[t]] = <<>>
          /\ pc[t] \in {"invoke_callbacks", "notify_watchers"} => cond_waiters[fut[t]] = {}
          /\ pc[t] = "invoke_callbacks" =>
                \A w \in Watchers : sig_count[w][fut[t]] = 0
          /\ pc[t] = "notify_watchers" => update_callbacks[fut[t]] = <<>>
          /\ out[t] # <<"AssertionError", None>>
    /\ \A f \in Futures :
          /\ invoked[f] # <<>> => (done[f] /\ (Truthy(result[f]) \/ Truthy(exception[f])))
          /\ \A w \in Watchers :
                sig_count[w][f] > 0 =>
                    /\ done[f] /\ (Truthy(result[f]) \/ Truthy(exception[f]))
                    /\ StoredOnly(invoked[f], f) = stored[f]

\* a completed future on which a reader waited and was answered, a stored
\* callback ran and a stored watcher was signalled
C17_Witness ==
    \E f \in Futures, w \in Watchers, r \in Readers :
        /\ Completed(f)
        /\ fut[r] = f /\ pc[r] = "returned" /\ ~flag[r]
        /\ stored[f] # <<>> /\ invoked[f] = stored[f]
        /\ sig_count[w][f] = 1 /\ f \notin sig_sync[w]

\* C16: once startup has returned, the work manager's mode is MODE_MASTER
\* or MODE_WORKER and is the value startup returned to the script; a mode
\* that is set never changes; and a w_states process whose startup returned
\* anything but MODE_MASTER has not opened the data store, has not reached
\* the reading and saving of states, and when it has left the check it has
\* exited with status 2.
C16_ModeIsFixedAndWorkerRefuses ==
    /\ [](/\ ws_pc # "start" =>
             (mode \in {MODE_MASTER, MODE_WORKER} /\ mode = ws_mode)
          /\ (ws_pc # "start" /\ ws_mode # MODE_MASTER) =>
                /\ ~ws_backing /\ ~shutdown_called
                /\ ws_pc \in {"check", "exited"}
                /\ ws_pc = "exited" => ws_exit = 2
          /\ ws_backing => mode = MODE_MASTER)
    /\ [][mode # None => mode' = mode]_vars

\* a worker process that was refused
C16_Witness ==
    /\ mode = MODE_WORKER /\ ws_mode = MODE_WORKER
    /\ ws_pc = "exited" /\ ws_exit = 2 /\ ~ws_backing

\* C18: for a watcher that is waited on and reset again and again, the
\* futures that signalled it are, in signal order, the futures its reset()
\* calls have returned followed by its current completed list, so each
\* signal is returned by one reset and by no other; reset() holds the
\* watcher's lock from the clearing of the event to the swap of the list;
\* and whenever the lock is free the event is set exactly if the completed
\* list holds at least threshold entries.
C18_ResetIsAtomic ==
    \A w \in Threads :
        role[w] = "watch" =>
            /\ sig_seq[w] = out[w] \o w_completed[w]
            /\ pc[w] = "reset_swap" => (w_lock[w] = w /\ ~w_event[w])
            /\ w_lock[w] = NoThread =>
                  (w_event[w] <=> (Len(w_completed[w]) >= w_threshold[w]))

\* a watcher whose first reset() returned a future and that has been
\* signalled again since
C18_Witness ==
    \E w \in Threads :
        /\ role[w] = "watch" /\ flag[w] /\ pc[w] = "wait"
        /\ out[w] # <<>> /\ w_completed[w] # <<>> /\ w_event[w]

AsCompleteds == {t \in Threads : role[t] = "as_completed"}

\* what as_completed has yielded of the futures that were pending at its snapshot
YieldedLate(t) == LET Late(f) == f \notin snap[t] IN SelectSeq(out[t], Late)

\* C19 as stated: of two futures that were pending at the snapshot of an
\* as_completed call and that the call has yielded, the one that became Done
\* first (the other was not yet Done at that moment) was yielded first.
C19_YieldedInCompletionOrder ==
    \A t \in AsCompleteds :
        \A i, j \in DOMAIN YieldedLate(t) :
            YieldedLate(t)[i] \in prior[YieldedLate(t)[j]].done => i < j

\* C19 amended: as_completed yields the futures that were pending at its
\* snapshot in the order in which they signalled its watcher: what it has
\* yielded of them, then what is left of the list reset() gave it, then the
\* watcher's list, is the sequence of the watcher's signals; and a future
\* whose completing call had returned when another became Done is yielded
\* before that other.
C19_YieldedInSignalOrder ==
    \A t \in AsCompleteds :
        /\ sig_seq[t] = YieldedLate(t) \o batch[t] \o w_completed[t]
        /\ \A i, j \in DOMAIN YieldedLate(t) :
              YieldedLate(t)[i] \in prior[YieldedLate(t)[j]].completed => i < j

\* as_completed over two futures, both pending at the snapshot, handed over
\* by one reset() and yielded in the order of their signals, the first one's
\* completing call having returned before the second became Done
C19_Witness ==
    \E t \in AsCompleteds :
        /\ pc[t] = "finished" /\ snap[t] = {} /\ Len(out[t]) = 2
        /\ out[t] = sig_seq[t]
        /\ out[t][1] \in prior[out[t][2]].completed

ExcReaders == {t \in Threads : role[t] = "exc_reader"}

\* C20: a get_exception call that has ended was on a Done future and
\* returned that future's stored exception (None if it holds none); it
\* raised nothing.
C20_GetExceptionGivesTheStoredError ==
    \A t \in ExcReaders :
        pc[t] = "returned" =>
            /\ done[fut[t]]
            /\ out[t] = <<"return", exception[fut[t]]>>

\* ------------------------------------------------------- specifications
\* the steps of a set_result / set_exception call that every call takes
ProducerNext ==
    \/ \E t \in Threads : SetResult(t)
    \/ \E t \in Threads : SetException(t)
    \/ \E t \in Threads : MarkDone(t)
    \/ \E t \in Threads : NotifyAll(t)
    \/ \E t \in Threads : ClearCallbacks(t)
    \/ \E t \in Threads : ClearWatchers(t)

\* the steps on a FutureWatcher, by its builder and by completing futures
WatcherNext ==
    \/ \E t \in Threads : AddWatcher(t)
    \/ \E t \in Threads : NotifyWatcher(t)
    \/ \E t \in Threads : WatcherWait(t)
    \/ \E t \in Threads : ResetClear(t)
    \/ \E t \in Threads : ResetSwap(t)

\* entering and leaving WMFuture.all_acquired
ScopeNext ==
    \/ \E t \in Threads : AllAcquiredCall(t)
    \/ \E t \in Threads : AllAcquiredEnter(t)
    \/ \E t \in Threads : AllAcquiredExit(t)

\* Spec: three completing threads and two readers of shared futures
Init == InitWith(<<"producer", "producer", "producer", "reader", "reader">>)
Next ==
    \/ ProducerNext
    \/ \E t \in Threads : IsDone(t)
    \/ \E t \in Threads : GetResult(t)
    \/ \E t \in Threads : GetResultWake(t)
Spec == Init /\ [][Next]_vars

\* SpecCallback: two completing threads and two threads registering callbacks
InitCallback == InitWith(<<"producer", "producer", "registrar", "registrar">>)
NextCallback ==
    \/ ProducerNext
    \/ \E t \in Threads : InvokeCallback(t)
    \/ \E t \in Threads : AddCallback(t)
SpecCallback == InitCallback /\ [][NextCallback]_vars

\* SpecWatch: two completing threads and a thread that builds a FutureWatcher
\* over a set of futures, then waits on it and resets it, again and again
InitWatch == InitWith(<<"producer", "producer", "watch">>)
NextWatch ==
    \/ ProducerNext
    \/ WatcherNext
    \/ \E t \in Threads : WatcherInit(t)
SpecWatch == InitWatch /\ [][NextWatch]_vars

\* SpecWait: two completing threads and a consumer in as_completed or in wait_any
InitWait ==
    \/ InitWith(<<"producer", "producer", "as_completed">>)
    \/ InitWith(<<"producer", "producer", "wait_any">>)
NextWait ==
    \/ ProducerNext
    \/ WatcherNext
    \/ ScopeNext
    \/ \E t \in Threads : AsCompletedBody(t)
    \/ \E t \in Threads : WaitAnyBody(t)
    \/ \E t \in Threads : YieldDone(t)
    \/ \E t \in Threads : YieldCompleted(t)
SpecWait == InitWait /\ [][NextWait]_vars

\* SpecScope: a completing thread and three threads that enter all_acquired
\* over sets of the same futures: as_completed, wait_any and a direct caller
InitScope == InitWith(<<"producer", "as_completed", "wait_any", "scoped">>)
NextScope ==
    \/ NextWait
    \/ \E t \in Threads : ScopedBodyEnds(t)
    \/ \E t \in Threads : ScopedBodyRaises(t)
SpecScope == InitScope /\ [][NextScope]_vars

\* SpecAll: three completing threads and a thread in wait_all
InitAll == InitWith(<<"producer", "producer", "producer", "wait_all">>)
NextAll ==
    \/ ProducerNext
    \/ \E t \in Threads : WaitAllCall(t)
    \/ \E t \in Threads : WaitAllGet(t)
    \/ \E t \in Threads : WaitAllWake(t)
SpecAll == InitAll /\ [][NextAll]_vars

\* SpecLive: every future has its own thread, which completes it by
\* set_result once, and NumWaiters threads call wait_all on the list of all
\* futures (the owners are interchangeable, so which order the list has
\* makes no difference); every thread that
\* can take a step eventually takes one (the operating system schedules
\* every runnable thread)
LiveRoles == [t \in 1..(NumFutures + NumWaiters) |->
                 IF t <= NumFutures THEN "owner" ELSE "wait_shared"]
InitLive == InitWith(LiveRoles)
ThreadNext(t) ==
    \/ SetResult(t)
    \/ MarkDone(t)
    \/ NotifyAll(t)
    \/ ClearCallbacks(t)
    \/ ClearWatchers(t)
    \/ WaitAllCall(t)
    \/ WaitAllGet(t)
    \/ WaitAllWake(t)
NextLive ==
    \/ \E t \in Threads : SetResult(t)
    \/ \E t \in Threads : MarkDone(t)
    \/ \E t \in Threads : NotifyAll(t)
    \/ \E t \in Threads : ClearCallbacks(t)
    \/ \E t \in Threads : ClearWatchers(t)
    \/ \E t \in Threads : WaitAllCall(t)
    \/ \E t \in Threads : WaitAllGet(t)
    \/ \E t \in Threads : WaitAllWake(t)
SpecLive ==
    /\ InitLive
    /\ [][NextLive]_vars
    /\ \A t \in 1..(NumFutures + NumWaiters) : WF_vars(ThreadNext(t))

\* SpecIsolate: a completing thread, two threads registering callbacks and a
\* thread with a FutureWatcher
InitIsolate == InitWith(<<"producer", "registrar", "registrar", "watch">>)
NextIsolate ==
    \/ ProducerNext
    \/ WatcherNext
    \/ \E t \in Threads : InvokeCallback(t)
    \/ \E t \in Threads : AddCallback(t)
    \/ \E t \in Threads : WatcherInit(t)
SpecIsolate == InitIsolate /\ [][NextIsolate]_vars

\* SpecOrder: a completing thread, a thread registering a callback, a thread
\* with a FutureWatcher and a reader
InitOrder == InitWith(<<"producer", "registrar", "watch", "reader">>)
NextOrder ==
    \/ NextIsolate
    \/ \E t \in Threads : GetResult(t)
    \/ \E t \in Threads : GetResultWake(t)
SpecOrder == InitOrder /\ [][NextOrder]_vars

\* SpecMode: the w_states command in a process whose work manager is the
\* base class or a transport's worker side, beside a completing thread and a
\* reader of the process
InitMode == InitWith(<<"producer", "reader">>)
NextMode ==
    \/ Startup
    \/ StartupWorker
    \/ CheckMode
    \/ OpenBacking
    \/ StatesDone
    \/ StatesFail
    \/ ProducerNext
    \/ \E t \in Threads : GetResult(t)
    \/ \E t \in Threads : GetResultWake(t)
SpecMode == InitMode /\ [][NextMode]_vars

\* SpecException: two completing threads and a thread calling get_exception
InitException == InitWith(<<"producer", "producer", "exc_reader">>)
NextException ==
    \/ ProducerNext
    \/ \E t \in Threads : GetException(t)
SpecException == InitException /\ [][NextException]_vars

====
